---- MODULE Spec2Model ----
(***************************************************************************)
(* Model of the iOS Reminders extraction agent (ios_reminders_agent.py):   *)
(* one process run of main() is the cycle extract -> for each task         *)
(* (query, decide, add) -> prompt -> print -> close.  The task database    *)
(* (src/database/task_db.py) and the card generator                        *)
(* (src/task_card_generator.py) are not part of the sources at hand; their *)
(* operations are modelled from the design document.                       *)
(*                                                                         *)
(* Distances are in hundredths (0.1 is 10).  Timestamps are instants       *)
(* (integers); isoformat renders an instant as text.                       *)
(***************************************************************************)
EXTENDS Integers, Sequences, FiniteSets, TLC

\* ------------------------------------------------------------------ bounds

\* Longest batch the reminder source holds.
MaxBatch == 3

\* Number of process runs against the same persisted store.
MaxRuns == 2

\* ------------------------------------------------------------- data model

\* Optional[str] = None
None == "None"

\* Task(name, priority, due_date, completed, list_name): a pydantic model whose
\* priority is declared `int`; no validator restricts it to 1..3.
Task(name, priority, due_date, list_name) ==
    [name |-> name, priority |-> priority, due_date |-> due_date,
     completed |-> FALSE, list_name |-> list_name]

\* The tasks a reminder source may hold.  The shipped extractor is a
\* placeholder that returns two fixed tasks; any list of Task values is a
\* legal return value of _extract_tasks_from_icloud.
TaskPool ==
    { Task("Buy milk", 1, "2026-11-03T09:00:00", "Work"),
      Task("buy  milk", 2, None, None),
      Task("Buy milks", 3, None, "Personal"),
      Task("Call dentist", 2, "2026-11-04T10:00:00", None),
      Task("Buy milk!", 5, None, "Work") }

RECURSIVE SeqsUpTo(_, _)
SeqsUpTo(S, n) ==
    IF n = 0 THEN { <<>> }
    ELSE LET shorter == SeqsUpTo(S, n - 1)
         IN  shorter \cup { Append(s, x) : s \in { t \in shorter : Len(t) = n - 1 }, x \in S }

Batches == SeqsUpTo(TaskPool, MaxBatch)

\* datetime.datetime.now().isoformat() for instant n.
isoformat(n) == "2026-11-02T12:00:" \o (IF n < 10 THEN "0" ELSE "") \o ToString(n)

\* TaskRecord: priority must be one of 1, 2, 3; constructing with another
\* value fails.
TaskRecordValid(priority) == priority \in {1, 2, 3}

\* ------------------------------------------------------- similarity index

\* Case and whitespace normalisation of a task name.
Normalize(name) ==
    CASE name = "Buy milk" -> "buy milk"
      [] name = "buy  milk" -> "buy milk"
      [] name = "Buy milk!" -> "buy milk!"
      [] name = "Buy milks" -> "buy milks"
      [] name = "Call dentist" -> "call dentist"
      [] OTHER -> name

\* The metric, in hundredths: normalised names are placed on a line and the
\* distance is the gap between them, so it is symmetric and zero exactly for
\* names with the same normal form.
Coord(norm) ==
    CASE norm = "buy milk" -> 0
      [] norm = "buy milk!" -> 5
      [] norm = "buy milks" -> 10
      [] norm = "call dentist" -> 90
      [] OTHER -> 200

Abs(x) == IF x < 0 THEN 0 - x ELSE x

similarity_distance(a, b) == Abs(Coord(Normalize(a)) - Coord(Normalize(b)))

\* Ranking of stored record p before stored record q for a query: ascending
\* distance, then most recent created_at, then insertion order.
RanksBefore(st, name, p, q) ==
    LET dp == similarity_distance(name, st[p].name)
        dq == similarity_distance(name, st[q].name)
    IN  \/ dp < dq
        \/ dp = dq /\ st[p].created_at > st[q].created_at
        \/ dp = dq /\ st[p].created_at = st[q].created_at /\ p < q

RECURSIVE Ranked(_, _, _)
Ranked(st, name, idx) ==
    IF idx = {} THEN <<>>
    ELSE LET p == CHOOSE x \in idx : \A y \in idx \ {x} : RanksBefore(st, name, x, y)
         IN  <<[name |-> st[p].name, priority |-> st[p].priority,
                due_date |-> st[p].due_date, created_at |-> st[p].created_at,
                similarity_distance |-> similarity_distance(name, st[p].name)]>>
             \o Ranked(st, name, idx \ {p})

\* TaskDatabase.find_similar_tasks(name): read-only, nearest first.
find_similar_tasks(st, name) == Ranked(st, name, DOMAIN st)

\* TaskDatabase.add_task(record): the record is visible to the next query.
add_task(st, record) == Append(st, record)

\* ------------------------------------------------------------ the extractor

\* extract_tasks without its handler's empty result: what was fetched is
\* returned although an error occurred.
extract_tasks_KeepsTasks(ok, held) == held

\* IosRemindersExtractor.extract_tasks: any error while obtaining credentials
\* or fetching is caught and an empty ImportantTasks is returned.
extract_tasks(ok, held) == IF ok THEN held ELSE <<>>

\* ------------------------------------------------------ main(): the helpers

\* similar_tasks[0].similarity_distance < 0.1, in hundredths.
THRESHOLD == 10

\* The duplicate test with the threshold itself counted as a duplicate.
IsDuplicate_Inclusive(similar) ==
    /\ similar # <<>>
    /\ Len(similar) > 0
    /\ similar[1].similarity_distance <= THRESHOLD

\* The duplicate test of the loop body.
IsDuplicate(similar) ==
    /\ similar # <<>>
    /\ Len(similar) > 0
    /\ similar[1].similarity_distance < THRESHOLD

\* The loop body without its `continue`: a duplicate falls through to the add.
AfterDuplicate_FallsThrough == "add"

\* Where the loop goes after recording a duplicate: `continue`.
AfterDuplicate == "loop"

\* `x or default` for an Optional[str]: None and the empty string are falsy.
OrElse(x, default) == IF x = None \/ x = "" THEN default ELSE x

\* The record built with the list name in place of the task name.
db_task_ListAsName(task, now) ==
    [name |-> OrElse(task.list_name, "Default"),
     priority |-> task.priority,
     due_date |-> OrElse(task.due_date, isoformat(now)),
     created_at |-> now]

\* The TaskRecord main() builds for an accepted task at instant now.
db_task(task, now) ==
    [name |-> task.name,
     priority |-> task.priority,
     due_date |-> OrElse(task.due_date, isoformat(now)),
     created_at |-> now]

\* priority_map.get(priority, "UNKNOWN")
priority_map(priority) ==
    CASE priority = 1 -> "HIGH"
      [] priority = 2 -> "MEDIUM"
      [] priority = 3 -> "LOW"
      [] OTHER -> "UNKNOWN"

\* The dictionary handed to create_task_image.
task_data(task) ==
    [title |-> task.name,
     priority |-> priority_map(task.priority),
     due_date |-> OrElse(task.due_date, "Today"),
     list |-> OrElse(task.list_name, "Default")]

\* The branch test taken for any result at all.
HasTasks_Always(result_tasks) == TRUE

\* `if result and result.tasks`: an empty list is falsy.
HasTasks(result_tasks) == result_tasks # <<>>

\* add_task wrapped in a handler of its own that goes on with the next task.
AfterAddFailure_Continues == "loop"

\* Where an exception of db.add_task goes: there is no handler in the loop,
\* so it leaves the loop for the outer `except Exception`.
AfterAddFailure == "except"

\* The print loop running over every extracted task.
PrintQueue_AllTasks(accepted, extracted) == extracted

\* `for task in new_tasks`: the tasks the print loop runs over.
PrintQueue(accepted, extracted) == accepted

\* What the user may type at the print prompt.
Answers == { "y", "Y", "n", "" }

\* str.lower() on the answers.
Lower(ans) == IF ans = "Y" THEN "y" ELSE ans

\* The prompt test taking everything but 'n' for a yes.
WantsPrint_NotNo(ans) == ans # "n"

\* print_tasks.lower() == 'y'

WantsPrint(ans) == Lower(ans) = "y"

\* The handler returning from main() instead of falling through to close().
AfterExcept_Returns == "done"

\* Where control goes after the outer `except Exception` handler: the code
\* after the try statement, which closes the database.
AfterExcept == "close"

\* create_task_image: a path, a falsy value, or an exception.
RenderOutcomes == { "path", "none", "raise" }

\* -------------------------------------------------------------------- state

VARIABLES
    source,          \* what the reminder source holds (the extractor's input)
    store,           \* the persisted task records, in insertion order
    clock,           \* the current instant
    run,             \* number of the current process run
    pc,              \* position in main()
    tasks,           \* result.tasks
    i,               \* index of the task the for loop is at (1-based)
    similar_tasks,   \* result of the last find_similar_tasks
    new_tasks,
    duplicate_tasks,
    j,               \* index into new_tasks of the print loop
    forwarded,       \* task_data handed to create_task_image, in order
    printed,         \* image jobs print_to_thermal_printer completed
    error,           \* origin of the exception the outer handler caught
    escaped,         \* an exception left main()
    extractFailed,   \* the extractor hit an error in this run
    closeCount,      \* calls of db.close() in this run
    queries,         \* find_similar_tasks calls in this run
    adds,            \* add_task calls that returned in this run
    lateOps,         \* queries or adds issued after close()
    printErrors,     \* printing failures caught by the inner handler
    answered,        \* "none", or the answer given at the print prompt
    store0,          \* the store when this run began
    storeAtPrint,    \* the store when the printing phase began
    trace,           \* per processed task: nearest distance and outcome
    prev             \* summary of the previous run

vars == << source, store, clock, run, pc, tasks, i, similar_tasks, new_tasks,
           duplicate_tasks, j, forwarded, printed, error, escaped,
           extractFailed, closeCount, queries, adds, lateOps, printErrors,
           answered, store0, storeAtPrint, trace, prev >>

\* Stores a run may start from: empty, or holding a record of an earlier cycle.
InitialStores ==
    { <<>>,
      << [name |-> "Buy milk", priority |-> 1,
          due_date |-> "2026-11-03T09:00:00", created_at |-> 0] >> }

NoPrev ==
    [valid |-> FALSE, store0 |-> <<>>, tasks |-> <<>>, new_tasks |-> <<>>,
     duplicate_tasks |-> <<>>, error |-> "none"]

\* The nearest distance of a query result; -1 when nothing was returned.
Nearest(similar) == IF similar = <<>> THEN -1 ELSE similar[1].similarity_distance

\* The state when main() has constructed TaskDatabase() and enters the try.
RunStart ==
    /\ pc = "extract"
    /\ tasks = <<>>
    /\ i = 1
    /\ similar_tasks = <<>>
    /\ new_tasks = <<>>
    /\ duplicate_tasks = <<>>
    /\ j = 1
    /\ forwarded = <<>>
    /\ printed = <<>>
    /\ error = "none"
    /\ escaped = FALSE
    /\ extractFailed = FALSE
    /\ closeCount = 0
    /\ queries = 0
    /\ adds = 0
    /\ lateOps = 0
    /\ printErrors = 0
    /\ answered = "none"
    /\ storeAtPrint = <<>>
    /\ trace = <<>>

Init ==
    /\ source \in Batches
    /\ store \in InitialStores
    /\ store0 = store
    /\ clock = 1
    /\ run = 1
    /\ prev = NoPrev
    /\ RunStart

\* ------------------------------------------------------------------ actions

\* result = await extract_ios_reminders_tasks(); `if result and result.tasks`
\* enters the processing branch, anything else prints "No actionable tasks".
Extract ==
    /\ pc = "extract"
    /\ \E ok \in BOOLEAN :
         /\ tasks' = extract_tasks(ok, source)
         /\ extractFailed' = ~ok
    /\ pc' = IF HasTasks(tasks') THEN "loop" ELSE "close"
    /\ UNCHANGED << source, store, clock, run, i, similar_tasks, new_tasks,
                    duplicate_tasks, j, forwarded, printed, error, escaped,
                    closeCount, queries, adds, lateOps, printErrors, answered,
                    store0, storeAtPrint, trace, prev >>

\* similar_tasks = db.find_similar_tasks(task.name) for the task the loop is at.
Query ==
    /\ pc = "loop"
    /\ i <= Len(tasks)
    /\ similar_tasks' = find_similar_tasks(store, tasks[i].name)
    /\ queries' = queries + 1
    /\ lateOps' = IF closeCount > 0 THEN lateOps + 1 ELSE lateOps
    /\ pc' = "decide"
    /\ UNCHANGED << source, store, clock, run, tasks, i, new_tasks,
                    duplicate_tasks, j, forwarded, printed, error, escaped,
                    extractFailed, closeCount, adds, printErrors, answered,
                    store0, storeAtPrint, trace, prev >>

\* The duplicate test: a duplicate is recorded and the loop continues;
\* otherwise control falls through to the construction of the record.
Decide ==
    /\ pc = "decide"
    /\ IF IsDuplicate(similar_tasks)
         THEN /\ duplicate_tasks' = Append(duplicate_tasks, tasks[i])
              /\ trace' = Append(trace, [d |-> Nearest(similar_tasks), out |-> "dup"])
              /\ pc' = AfterDuplicate
              /\ i' = IF AfterDuplicate = "loop" THEN i + 1 ELSE i
         ELSE /\ pc' = "add"
              /\ UNCHANGED << duplicate_tasks, trace, i >>
    /\ UNCHANGED << source, store, clock, run, tasks, similar_tasks, new_tasks,
                    j, forwarded, printed, error, escaped, extractFailed,
                    closeCount, queries, adds, lateOps, printErrors, answered,
                    store0, storeAtPrint, prev >>

\* db_task = TaskRecord(...); db.add_task(db_task); new_tasks.append(task).
\* The construction fails for a priority outside 1..3 and add_task may fail;
\* either exception leaves the loop for the outer handler.
Add ==
    /\ pc = "add"
    /\ clock' = clock + 1
    /\ IF ~TaskRecordValid(tasks[i].priority)
         THEN /\ error' = "record"
              /\ pc' = "except"
              /\ trace' = Append(trace, [d |-> Nearest(similar_tasks), out |-> "error"])
              /\ UNCHANGED << store, new_tasks, i, adds, lateOps >>
         ELSE \E ok \in BOOLEAN :
                IF ok
                  THEN /\ store' = add_task(store, db_task(tasks[i], clock))
                       /\ adds' = adds + 1
                       /\ lateOps' = IF closeCount > 0 THEN lateOps + 1 ELSE lateOps
                       /\ new_tasks' = Append(new_tasks, tasks[i])
                       /\ trace' = Append(trace, [d |-> Nearest(similar_tasks), out |-> "new"])
                       /\ i' = i + 1
                       /\ pc' = "loop"
                       /\ UNCHANGED error
                  ELSE /\ error' = "add"
                       /\ pc' = AfterAddFailure
                       /\ i' = IF AfterAddFailure = "loop" THEN i + 1 ELSE i
                       /\ trace' = Append(trace, [d |-> Nearest(similar_tasks), out |-> "error"])
                       /\ lateOps' = IF closeCount > 0 THEN lateOps + 1 ELSE lateOps
                       /\ UNCHANGED << store, new_tasks, adds >>
    /\ UNCHANGED << source, run, tasks, similar_tasks, duplicate_tasks, j,
                    forwarded, printed, escaped, extractFailed, closeCount,
                    queries, printErrors, answered, store0, storeAtPrint, prev >>

\* After the loop: the summary is printed and the user is asked whether to
\* print.  input() may itself raise (end of input).
Prompt ==
    /\ pc = "loop"
    /\ i > Len(tasks)
    /\ \/ \E ans \in Answers :
            /\ answered' = ans
            /\ pc' = IF WantsPrint(ans) THEN "print" ELSE "close"
            /\ UNCHANGED error
       \/ /\ error' = "input"
          /\ pc' = "except"
          /\ UNCHANGED answered
    /\ storeAtPrint' = store
    /\ j' = 1
    /\ UNCHANGED << source, store, clock, run, tasks, i, similar_tasks,
                    new_tasks, duplicate_tasks, forwarded, printed, escaped,
                    extractFailed, closeCount, queries, adds, lateOps,
                    printErrors, store0, trace, prev >>

\* One iteration of `for task in new_tasks`: create_task_image is called
\* outside the inner try; print_to_thermal_printer inside it.
PrintTask ==
    /\ pc = "print"
    /\ j <= Len(PrintQueue(new_tasks, tasks))
    /\ forwarded' = Append(forwarded, task_data(PrintQueue(new_tasks, tasks)[j]))
    /\ \E r \in RenderOutcomes :
         CASE r = "raise" ->
                /\ error' = "render"
                /\ pc' = "except"
                /\ UNCHANGED << j, printed, printErrors >>
           [] r = "none" ->
                /\ j' = j + 1
                /\ UNCHANGED << pc, error, printed, printErrors >>
           [] OTHER ->
                /\ j' = j + 1
                /\ UNCHANGED << pc, error >>
                /\ \E printOk \in BOOLEAN :
                     IF printOk
                       THEN /\ printed' = Append(printed, PrintQueue(new_tasks, tasks)[j].name)
                            /\ UNCHANGED printErrors
                       ELSE /\ printErrors' = printErrors + 1
                            /\ UNCHANGED printed
    /\ UNCHANGED << source, store, clock, run, tasks, i, similar_tasks,
                    new_tasks, duplicate_tasks, escaped, extractFailed,
                    closeCount, queries, adds, lateOps, answered, store0,
                    storeAtPrint, trace, prev >>

\* The print loop is exhausted: "Printing complete!".
PrintDone ==
    /\ pc = "print"
    /\ j > Len(PrintQueue(new_tasks, tasks))
    /\ pc' = "close"
    /\ UNCHANGED << source, store, clock, run, tasks, i, similar_tasks,
                    new_tasks, duplicate_tasks, j, forwarded, printed, error,
                    escaped, extractFailed, closeCount, queries, adds, lateOps,
                    printErrors, answered, store0, storeAtPrint, trace, prev >>

\* except Exception as e: print the error; control continues after the try.
Except ==
    /\ pc = "except"
    /\ pc' = AfterExcept
    /\ UNCHANGED << source, store, clock, run, tasks, i, similar_tasks,
                    new_tasks, duplicate_tasks, j, forwarded, printed, error,
                    escaped, extractFailed, closeCount, queries, adds, lateOps,
                    printErrors, answered, store0, storeAtPrint, trace, prev >>

\* db.close(), the last statement of main(), outside the try: an exception
\* it raises leaves main().
Close ==
    /\ pc = "close"
    /\ closeCount' = closeCount + 1
    /\ \E ok \in BOOLEAN :
         /\ escaped' = ~ok
         /\ pc' = IF ok THEN "done" ELSE "crashed"
    /\ UNCHANGED << source, store, clock, run, tasks, i, similar_tasks,
                    new_tasks, duplicate_tasks, j, forwarded, printed, error,
                    extractFailed, queries, adds, lateOps, printErrors,
                    answered, store0, storeAtPrint, trace, prev >>

\* The program is started again: a new TaskDatabase() on the same persisted
\* store, the reminder source holding what it held.
Restart ==
    /\ pc \in { "done", "crashed" }
    /\ run < MaxRuns
    /\ run' = run + 1
    /\ store0' = store
    /\ prev' = [valid |-> TRUE, store0 |-> store0, tasks |-> tasks,
                new_tasks |-> new_tasks, duplicate_tasks |-> duplicate_tasks,
                error |-> error]
    /\ pc' = "extract"
    /\ tasks' = <<>>
    /\ i' = 1
    /\ similar_tasks' = <<>>
    /\ new_tasks' = <<>>
    /\ duplicate_tasks' = <<>>
    /\ j' = 1
    /\ forwarded' = <<>>
    /\ printed' = <<>>
    /\ error' = "none"
    /\ escaped' = FALSE
    /\ extractFailed' = FALSE
    /\ closeCount' = 0
    /\ queries' = 0
    /\ adds' = 0
    /\ lateOps' = 0
    /\ printErrors' = 0
    /\ answered' = "none"
    /\ storeAtPrint' = <<>>
    /\ trace' = <<>>
    /\ UNCHANGED << source, store, clock >>

Next ==
    \/ Extract
    \/ Query
    \/ Decide
    \/ Add
    \/ Prompt
    \/ PrintTask
    \/ PrintDone
    \/ Except
    \/ Close
    \/ Restart

Spec == Init /\ [][Next]_vars

\* ------------------------------------------------- operators of the claims

Finished == pc \in { "done", "crashed" }

\* Number of the first k trace entries with outcome o.
RECURSIVE CountOut(_, _)
CountOut(k, o) ==
    IF k = 0 THEN 0
    ELSE CountOut(k - 1, o) + (IF trace[k].out = o THEN 1 ELSE 0)

\* The store as the k-th task's query saw it: what the run began with plus
\* the records of the tasks accepted before it.
StoreBefore(k) == SubSeq(store, 1, Len(store0) + CountOut(k - 1, "new"))

\* Some record of st lies strictly within the threshold of name.
HasNear(st, name) ==
    \E p \in DOMAIN st : similarity_distance(name, st[p].name) < THRESHOLD

\* The least distance from name to a record of st; -1 for an empty st.
MinDist(st, name) ==
    IF st = <<>> THEN -1
    ELSE CHOOSE d \in { similarity_distance(name, st[p].name) : p \in DOMAIN st } :
           \A q \in DOMAIN st : d <= similarity_distance(name, st[q].name)

\* The tasks among the first k whose outcome is o, in batch order.
RECURSIVE Outcomes(_, _)
Outcomes(k, o) ==
    IF k = 0 THEN <<>>
    ELSE IF trace[k].out = o THEN Append(Outcomes(k - 1, o), tasks[k])
         ELSE Outcomes(k - 1, o)

Range(s) == { s[k] : k \in DOMAIN s }

\* ----------------------------------------------------------------- claims

\* C1: a task is treated as a duplicate (recorded in duplicate_tasks, not
\* added, not forwarded) exactly when its query returned something and the
\* nearest stored record is strictly closer than 0.1; with an empty result or
\* a nearest distance of 0.1 or more it goes on to be added and is counted as
\* new once added.  The store grows by exactly the tasks counted as new, so a
\* cycle of duplicates only leaves it as it was.
C1_DuplicateRule ==
    /\ Len(trace) <= Len(tasks)
    /\ \A k \in 1 .. Len(trace) :
         /\ trace[k].d = MinDist(StoreBefore(k), tasks[k].name)
         /\ trace[k].out = "dup" <=>
              (StoreBefore(k) # <<>> /\ HasNear(StoreBefore(k), tasks[k].name))
         /\ trace[k].out = "dup" <=> (trace[k].d # -1 /\ trace[k].d < THRESHOLD)
         /\ trace[k].out = "error" => (k = Len(trace) /\ error \in { "add", "record" })
    /\ duplicate_tasks = Outcomes(Len(trace), "dup")
    /\ new_tasks = Outcomes(Len(trace), "new")
    /\ Len(store) = Len(store0) + Len(new_tasks)
    /\ SubSeq(store, 1, Len(store0)) = store0
    /\ \A k \in 1 .. Len(new_tasks) : store[Len(store0) + k].name = new_tasks[k].name
    /\ Len(forwarded) <= Len(new_tasks)
    /\ \A k \in 1 .. Len(forwarded) : forwarded[k] = task_data(new_tasks[k])
    /\ (\A k \in 1 .. Len(trace) : trace[k].out = "dup") => store = store0

\* C1 witness: a finished cycle that rejected one task as a duplicate and
\* accepted another whose nearest stored record was at exactly 0.1.
C1_Witness ==
    /\ pc = "done"
    /\ \E k \in 1 .. Len(trace) : trace[k].out = "dup" /\ trace[k].d = 0
    /\ \E k \in 1 .. Len(trace) : trace[k].out = "new" /\ trace[k].d = THRESHOLD

\* C2: a failing add skips only that task: every later task of the batch is
\* still queried and decided, and a batch of three distinct tasks with one
\* failing add persists exactly two records.
C2_AddFailureSkipsOnlyThatTask ==
    (Finished /\ error = "add") =>
        /\ Len(trace) = Len(tasks)
        /\ queries = Len(tasks)
        /\ (Len(tasks) = 3 /\ CountOut(Len(trace), "dup") = 0)
             => Len(store) = Len(store0) + 2

\* C3: in every process run db.close() is called exactly once, after every
\* query and add of the cycle: never before the run has finished its cycle,
\* and no query or add follows it.
C3_CloseExactlyOnce ==
    /\ Finished => closeCount = 1
    /\ ~Finished => closeCount = 0
    /\ lateOps = 0

\* C3 witness: a run that finished after add_task failed in mid-batch, with
\* an earlier task already stored.
C3_Witness ==
    /\ pc = "done"
    /\ error = "add"
    /\ adds >= 1
    /\ closeCount = 1

\* C4: tasks are processed in batch order and each stored record is seen by
\* the next query: when an earlier task was accepted and a later processed
\* task's name is within the threshold of it, the later one is a duplicate,
\* and the run stored at most one record under the two names.
C4_InBatchDedup ==
    /\ Len(trace) <= Len(tasks)
    /\ Len(trace) \in { i - 1, i }
    /\ \A k \in 1 .. Len(trace) :
         trace[k].out = "new" =>
           \E p \in DOMAIN store :
             /\ p > Len(store0)
             /\ similarity_distance(store[p].name, tasks[k].name) = 0
    /\ \A a \in 1 .. Len(trace) : \A b \in 1 .. Len(trace) :
         ( /\ a < b
           /\ trace[a].out = "new"
           /\ similarity_distance(tasks[a].name, tasks[b].name) < THRESHOLD )
         => /\ trace[b].out = "dup"
            /\ Cardinality({ p \in DOMAIN store :
                               /\ p > Len(store0)
                               /\ store[p].name \in { tasks[a].name, tasks[b].name } }) <= 1

\* C4 witness: a batch whose second task is a spelling variant of its first;
\* the first was accepted and the second rejected.
C4_Witness ==
    /\ Len(trace) >= 2
    /\ trace[1].out = "new"
    /\ trace[2].out = "dup"
    /\ tasks[1].name # tasks[2].name
    /\ store0 = <<>>

\* C5: when the extractor fails the cycle has no tasks: no query, no add, no
\* change of the store, nothing counted, and no exception reaches the
\* handler of main(); control goes straight to the closing of the database.
C5_ExtractorFailure ==
    extractFailed =>
        /\ tasks = <<>>
        /\ queries = 0
        /\ adds = 0
        /\ store = store0
        /\ new_tasks = <<>>
        /\ duplicate_tasks = <<>>
        /\ forwarded = <<>>
        /\ error = "none"
        /\ pc \in { "close", "done", "crashed" }

\* C5 witness: the extractor failed although the source held tasks, and the
\* run finished.
C5_Witness ==
    /\ extractFailed
    /\ source # <<>>
    /\ pc = "done"

\* The cycle of this run is over (the try statement has been left).
CycleOver == pc \in { "close", "done", "crashed" }

\* This run repeated the previous run's batch, the previous run having begun
\* on an empty store, and add_task failed in neither.
SameCycleTwice ==
    /\ CycleOver
    /\ prev.valid
    /\ prev.store0 = <<>>
    /\ prev.tasks = tasks
    /\ prev.error # "add"
    /\ error # "add"

\* C6 as stated: on the second of two identical cycles from an empty store
\* every task accepted by the first is a duplicate, nothing is added, and the
\* duplicates of the second are exactly the tasks the first accepted.
C6_SecondRunDuplicatesAreFirstRunAccepted ==
    SameCycleTwice =>
        /\ Range(prev.new_tasks) \subseteq Range(duplicate_tasks)
        /\ new_tasks = <<>>
        /\ store = store0
        /\ Range(duplicate_tasks) = Range(prev.new_tasks)

\* C6 amended: on the second of two identical cycles from an empty store
\* every task accepted by the first is a duplicate, nothing is added (the
\* store is that of the first run), and the duplicates of the second are the
\* tasks the first accepted together with those the first already rejected:
\* every task the first run processed, in batch order.
C6_SecondRunAllDuplicates ==
    SameCycleTwice =>
        /\ Range(prev.new_tasks) \subseteq Range(duplicate_tasks)
        /\ new_tasks = <<>>
        /\ adds = 0
        /\ store = store0
        /\ Range(duplicate_tasks) =
             Range(prev.new_tasks) \cup Range(prev.duplicate_tasks)
        /\ duplicate_tasks =
             SubSeq(tasks, 1, Len(prev.new_tasks) + Len(prev.duplicate_tasks))
        /\ prev.duplicate_tasks = <<>> => duplicate_tasks = prev.new_tasks

\* C6 witness: a second identical cycle has finished; the first accepted two
\* tasks and rejected a third inside the batch.
C6_Witness ==
    /\ SameCycleTwice
    /\ pc = "done"
    /\ Len(prev.new_tasks) = 2
    /\ Len(prev.duplicate_tasks) = 1
    /\ Len(duplicate_tasks) = 3

\* C7: when the cycle is over every task of the batch has been counted as
\* new, as duplicate or as the failed one, so the counts add up to the batch
\* size (stated here for batches whose records can all be constructed).
C7_EveryTaskCounted ==
    (CycleOver /\ error # "record") =>
        Len(new_tasks) + Len(duplicate_tasks) + (IF error = "add" THEN 1 ELSE 0)
          = Len(tasks)

\* C8: a failure while rendering or printing a task stays inside that task's
\* forwarding step: it never reaches the outer handler, every accepted task
\* is still forwarded, and the store is what it was when printing began.
C8_PrintFailureContained ==
    /\ error # "render"
    /\ (CycleOver /\ WantsPrint(answered)) => Len(forwarded) = Len(new_tasks)
    /\ (pc = "print" \/ (CycleOver /\ WantsPrint(answered))) => store = storeAtPrint

\* C9: a failure of close() is logged and not raised: no exception leaves
\* main(), and the store and counts of the cycle are what they were.
C9_CloseFailureNotRaised ==
    /\ ~escaped
    /\ pc # "crashed"
    /\ Finished => Len(store) = Len(store0) + Len(new_tasks)

\* C10: every stored record has a priority of 1, 2 or 3, and so has every
\* extracted task: a task with another priority cannot be constructed.
C10_PriorityInRange ==
    /\ \A p \in DOMAIN store : store[p].priority \in { 1, 2, 3 }
    /\ \A k \in DOMAIN tasks : tasks[k].priority \in { 1, 2, 3 }

\* The record the store holds for the k-th task accepted in this run.
StoredFor(k) == store[Len(store0) + k]

\* Field f of record r; "absent" when the record was built without it.
FieldOr(r, f, absent) == IF f \in DOMAIN r THEN r[f] ELSE absent

\* C11: the record stored for an accepted task carries the task's own name,
\* priority, due_date, completed and list_name; a task without a due_date is
\* stored without one.
C11_RecordCarriesTaskFields ==
    /\ Len(store) >= Len(store0) + Len(new_tasks)
    /\ \A k \in 1 .. Len(new_tasks) :
         /\ StoredFor(k).name = new_tasks[k].name
         /\ StoredFor(k).priority = new_tasks[k].priority
         /\ StoredFor(k).due_date = new_tasks[k].due_date
         /\ new_tasks[k].due_date = None => StoredFor(k).due_date = None
         /\ FieldOr(StoredFor(k), "list_name", "absent") = new_tasks[k].list_name
         /\ FieldOr(StoredFor(k), "completed", "absent") = new_tasks[k].completed

\* C12: an empty batch ends the cycle at once: no query, no add, no prompt
\* and no printer call, no exception, the store as it was, and control at the
\* closing of the database, which then runs once.
C12_EmptyBatch ==
    (pc # "extract" /\ tasks = <<>>) =>
        /\ pc \in { "close", "done", "crashed" }
        /\ queries = 0
        /\ adds = 0
        /\ answered = "none"
        /\ forwarded = <<>>
        /\ printed = <<>>
        /\ error = "none"
        /\ store = store0
        /\ Finished => closeCount = 1

\* C12 witness: the source held no reminders, the extraction succeeded and
\* the run finished with the database closed.
C12_Witness ==
    /\ source = <<>>
    /\ ~extractFailed
    /\ pc = "done"
    /\ closeCount = 1
    /\ store # <<>>

\* C13: what is handed to the printer is, in order, the tasks accepted as new
\* in this cycle (which are in batch order), each with its record already in
\* the store; nothing is handed over before the loop has dealt with the whole
\* batch, and never more than the accepted tasks.
C13_OnlyAcceptedForwarded ==
    /\ Len(trace) <= Len(tasks)
    /\ new_tasks = Outcomes(Len(trace), "new")
    /\ Len(forwarded) <= Len(new_tasks)
    /\ \A k \in 1 .. Len(forwarded) :
         /\ forwarded[k] = task_data(new_tasks[k])
         /\ Len(store) >= Len(store0) + k
         /\ StoredFor(k).name = new_tasks[k].name
    /\ forwarded # <<>> =>
         /\ i > Len(tasks)
         /\ adds = Len(new_tasks)
         /\ error \in { "none", "render" }
         /\ pc \in { "print", "except", "close", "done", "crashed" }
    /\ \A k \in 1 .. Len(printed) :
         \E m \in 1 .. Len(forwarded) : forwarded[m].title = printed[k]

\* C13 witness: a finished cycle that rejected a task and forwarded the two
\* tasks it accepted.
C13_Witness ==
    /\ pc = "done"
    /\ Len(forwarded) = 2
    /\ Len(new_tasks) = 2
    /\ Len(duplicate_tasks) = 1
    /\ Len(printed) >= 1

\* C14: both lists are empty when a cycle begins; after every completed
\* iteration each processed position of the batch is in exactly one of them
\* (the accepted positions in new_tasks, the rejected ones in
\* duplicate_tasks, each in batch order), their lengths add up to the number
\* of completed iterations, and the adds that returned are as many as
\* new_tasks, one record per accepted task.
C14_LoopInvariant ==
    /\ pc = "extract" => (new_tasks = <<>> /\ duplicate_tasks = <<>>)
    /\ Len(new_tasks) + Len(duplicate_tasks) = i - 1
    /\ Len(trace) \in { i - 1, i }
    /\ Len(trace) <= Len(tasks)
    /\ \A k \in 1 .. Len(trace) : k < i => trace[k].out \in { "new", "dup" }
    /\ new_tasks = Outcomes(Len(trace), "new")
    /\ duplicate_tasks = Outcomes(Len(trace), "dup")
    /\ adds = Len(new_tasks)
    /\ Len(store) = Len(store0) + adds
    /\ \A k \in 1 .. Len(new_tasks) : StoredFor(k).name = new_tasks[k].name

\* C14 witness: three iterations completed in a second run, with both lists
\* non-empty.
C14_Witness ==
    /\ run = 2
    /\ pc = "loop"
    /\ i = 4
    /\ Len(new_tasks) >= 1
    /\ Len(duplicate_tasks) >= 1

\* C15: when add_task raises for the task at position i, the records stored
\* for the earlier tasks stay, no later task is queried or stored, the prompt
\* and the printer are never reached, and the database is still closed.
C15_AddFailureAbortsBatch ==
    error = "add" =>
        /\ pc \in { "except", "close", "done", "crashed" }
        /\ Len(trace) = i
        /\ trace[i].out = "error"
        /\ queries = i
        /\ adds = Len(new_tasks)
        /\ Len(store) = Len(store0) + Len(new_tasks)
        /\ SubSeq(store, 1, Len(store0)) = store0
        /\ \A k \in 1 .. Len(new_tasks) : StoredFor(k).name = new_tasks[k].name
        /\ answered = "none"
        /\ forwarded = <<>>
        /\ printed = <<>>
        /\ Finished => closeCount = 1

\* C15 witness: add_task failed for the second of three tasks after the
\* first had been stored, and the run finished.
C15_Witness ==
    /\ error = "add"
    /\ Finished
    /\ i = 2
    /\ Len(tasks) = 3
    /\ adds = 1
    /\ closeCount = 1

\* C16: the printer is called only after the whole batch has been dealt
\* with and only when the answer to the prompt was 'y' or 'Y'; after such an
\* answer and an undisturbed print loop every accepted task was handed over;
\* whatever the answer, the store still holds what the loop stored.
C16_PrintOnlyOnYes ==
    /\ forwarded # <<>> => (answered \in { "y", "Y" } /\ i > Len(tasks))
    /\ pc = "print" => answered \in { "y", "Y" }
    /\ (CycleOver /\ answered \in { "y", "Y" } /\ error = "none")
         => Len(forwarded) = Len(new_tasks)
    /\ answered # "none" =>
         /\ store = storeAtPrint
         /\ Len(store) = Len(store0) + Len(new_tasks)
         /\ \A k \in 1 .. Len(new_tasks) : StoredFor(k).name = new_tasks[k].name

\* C16 witness: the user answered 'Y' and an accepted task was handed to the
\* printer.
C16_Witness ==
    /\ answered = "Y"
    /\ pc = "done"
    /\ Len(forwarded) >= 1
    /\ store = storeAtPrint

\* C16 second case: the user declined and the accepted tasks stayed stored.
C16_DeclinedReached ==
    /\ answered = "n"
    /\ pc = "done"
    /\ Len(new_tasks) >= 1

====
